---- MODULE Spec2Model ----
(***************************************************************************)
(* Model of proj_mdg/pdfgen.py: the Page and PDF classes and hex_to_rgb.   *)
(*                                                                         *)
(* Representation.                                                         *)
(*  - A byte string is a sequence of tokens (TLA+ strings); its byte       *)
(*    length is the sum of the tokens' lengths.  Text supplied by the user *)
(*    is a sequence of tokens drawn from a small alphabet, one of which is *)
(*    the seven-byte token "{pages}"; everything the code formats itself   *)
(*    is built by concatenation, so the placeholder token of a page node   *)
(*    and a user token "{pages}" are both single tokens of the sequence.   *)
(*    All tokens are ASCII, for which encode("latin1") and encode() write  *)
(*    one byte per character.                                              *)
(*  - Coordinates given by the caller are Python ints (points).  Values    *)
(*    the code formats with :.2f are carried in hundredths of a point,     *)
(*    colour components formatted with :.3f in thousandths.                *)
(*  - None for an optional number or string is 0 or <<>>: the code only    *)
(*    tests these arguments for truthiness ("w or 0", "if caption").       *)
(***************************************************************************)
EXTENDS Integers, Sequences, FiniteSets, TLC

VARIABLES pages, objects, images, file, file_exists,
          pc, show_page_numbers, page_obj_nums, pages_obj, catalog_obj,
          calls, save_calls, lastCall, warned,
          color_probe, wrap_probe, style_probe

vars == <<pages, objects, images, file, file_exists,
          pc, show_page_numbers, page_obj_nums, pages_obj, catalog_obj,
          calls, save_calls, lastCall, warned,
          color_probe, wrap_probe, style_probe>>

doc == <<pages, objects, images>>
save_locals == <<show_page_numbers, page_obj_nums, pages_obj, catalog_obj>>
probes == <<color_probe, wrap_probe, style_probe>>

(***************************************************************************)
(* Bounds of the model.                                                    *)
(***************************************************************************)
MaxCalls == 3
MaxSaves == 1
MaxLen == 5

(***************************************************************************)
(* Byte strings and number formatting.                                     *)
(***************************************************************************)
\* len(b) of a byte string given as its tokens: the bytes of tokens lo..hi
RECURSIVE ByteLenIn(_, _, _)
ByteLenIn(toks, lo, hi) ==
  IF lo > hi THEN 0
  ELSE IF lo = hi THEN Len(toks[lo])
  ELSE ByteLenIn(toks, lo, (lo + hi) \div 2)
       + ByteLenIn(toks, (lo + hi) \div 2 + 1, hi)

ByteLen(toks) == ByteLenIn(toks, 1, Len(toks))

RECURSIVE Flatten(_)
Flatten(seqs) ==
  IF seqs = <<>> THEN <<>> ELSE Head(seqs) \o Flatten(Tail(seqs))

\* "sep".join(parts), each part a token sequence
RECURSIVE JoinWith(_, _)
JoinWith(sep, parts) ==
  IF parts = <<>> THEN <<>>
  ELSE IF Len(parts) = 1 THEN parts[1]
  ELSE parts[1] \o <<sep>> \o JoinWith(sep, Tail(parts))

RECURSIVE JoinChars(_)
JoinChars(chars) ==
  IF chars = <<>> THEN "" ELSE Head(chars) \o JoinChars(Tail(chars))

Str(n) == ToString(n)

Pad(n, width) ==
  LET s == Str(n)
      zeros == [i \in 1..(width - Len(s)) |-> "0"]
  IN  JoinChars(zeros) \o s

\* f"{v:.2f}" for a value of h hundredths
Fmt2(h) ==
  LET a == IF h < 0 THEN -h ELSE h
  IN  (IF h < 0 THEN "-" ELSE "") \o Str(a \div 100) \o "." \o Pad(a % 100, 2)

\* f"{v:.3f}" for a value of t thousandths, 0 <= v <= 1
Fmt3(t) == Str(t \div 1000) \o "." \o Pad(t % 1000, 3)

\* f"{offset:010d}"
Fmt010d(n) == Pad(n, 10)

(***************************************************************************)
(* Colour utilities.  A colour argument is [kind, s, t]: a str (sequence   *)
(* of one-character strings) or a tuple.                                   *)
(***************************************************************************)
HexDigits == {"0", "1", "2", "3", "4", "5", "6", "7", "8", "9",
              "a", "b", "c", "d", "e", "f", "A", "B", "C", "D", "E", "F"}

HexVal(c) ==
  CASE c = "0" -> 0 [] c = "1" -> 1 [] c = "2" -> 2 [] c = "3" -> 3
    [] c = "4" -> 4 [] c = "5" -> 5 [] c = "6" -> 6 [] c = "7" -> 7
    [] c = "8" -> 8 [] c = "9" -> 9
    [] c \in {"a", "A"} -> 10 [] c \in {"b", "B"} -> 11
    [] c \in {"c", "C"} -> 12 [] c \in {"d", "D"} -> 13
    [] c \in {"e", "E"} -> 14 [] c \in {"f", "F"} -> 15

Whitespace == {" ", "\n", "\t"}

RECURSIVE lstrip(_, _)
lstrip(chars, drop) ==
  IF chars # <<>> /\ Head(chars) \in drop THEN lstrip(Tail(chars), drop)
  ELSE chars

RECURSIVE rstrip(_, _)
rstrip(chars, drop) ==
  IF chars # <<>> /\ chars[Len(chars)] \in drop
  THEN rstrip(SubSeq(chars, 1, Len(chars) - 1), drop)
  ELSE chars

strip(chars) == rstrip(lstrip(chars, Whitespace), Whitespace)

Raise(e) == [err |-> e, rgb |-> <<>>]
Return(v) == [err |-> "none", rgb |-> v]

hex_to_rgb(hex_color) ==
  LET h1 == lstrip(strip(hex_color), {"#"})
      h2 == IF Len(h1) = 3
            THEN <<h1[1], h1[1], h1[2], h1[2], h1[3], h1[3]>>
            ELSE h1
      int16(a, b) == 16 * HexVal(a) + HexVal(b)
  IN  IF Len(h2) # 6 THEN Raise("ValueError")
      ELSE IF \E i \in 1..6 : h2[i] \notin HexDigits THEN Raise("ValueError")
      ELSE Return(<<int16(h2[1], h2[2]), int16(h2[3], h2[4]),
                    int16(h2[5], h2[6])>>)

color_MAP ==
  [n \in {"black", "white", "red", "green", "blue", "yellow", "cyan",
          "magenta", "gray", "orange", "purple", "pink", "brown", "navy",
          "teal", "olive", "maroon", "gold", "lime"} |->
     CASE n = "black"   -> <<0, 0, 0>>
       [] n = "white"   -> <<255, 255, 255>>
       [] n = "red"     -> <<255, 0, 0>>
       [] n = "green"   -> <<0, 128, 0>>
       [] n = "blue"    -> <<0, 0, 255>>
       [] n = "yellow"  -> <<255, 255, 0>>
       [] n = "cyan"    -> <<0, 255, 255>>
       [] n = "magenta" -> <<255, 0, 255>>
       [] n = "gray"    -> <<128, 128, 128>>
       [] n = "orange"  -> <<255, 165, 0>>
       [] n = "purple"  -> <<128, 0, 128>>
       [] n = "pink"    -> <<255, 192, 203>>
       [] n = "brown"   -> <<139, 69, 19>>
       [] n = "navy"    -> <<0, 0, 128>>
       [] n = "teal"    -> <<0, 128, 128>>
       [] n = "olive"   -> <<128, 128, 0>>
       [] n = "maroon"  -> <<128, 0, 0>>
       [] n = "gold"    -> <<255, 215, 0>>
       [] n = "lime"    -> <<0, 255, 0>>]

Upper == <<"A", "B", "C", "D", "E", "F", "G", "H", "I", "J", "K", "L", "M",
           "N", "O", "P", "Q", "R", "S", "T", "U", "V", "W", "X", "Y", "Z">>
Lower == <<"a", "b", "c", "d", "e", "f", "g", "h", "i", "j", "k", "l", "m",
           "n", "o", "p", "q", "r", "s", "t", "u", "v", "w", "x", "y", "z">>

lower_char(c) ==
  IF \E i \in 1..26 : Upper[i] = c
  THEN Lower[CHOOSE i \in 1..26 : Upper[i] = c]
  ELSE c

lower(chars) == JoinChars([i \in 1..Len(chars) |-> lower_char(chars[i])])

ColStr(chars) == [kind |-> "str", s |-> chars, t |-> <<>>]
ColTuple(t) == [kind |-> "tuple", s |-> <<>>, t |-> t]

parse_color(c) ==
  IF c.kind = "str"
  THEN IF c.s # <<>> /\ c.s[1] = "#" THEN hex_to_rgb(c.s)
       ELSE IF lower(c.s) \in DOMAIN color_MAP
            THEN Return(color_MAP[lower(c.s)])
            ELSE Raise("ValueError")
  ELSE IF c.kind = "tuple" /\ Len(c.t) = 3 THEN Return(c.t)
  ELSE Raise("TypeError")

\* max(0, min(255, int(c))) / 255, in thousandths as :.3f rounds it
Normalize(v) ==
  LET m == IF v > 255 THEN 255 ELSE v
      k == IF m < 0 THEN 0 ELSE m
  IN  (k * 2000 + 255) \div 510

\* [max(0, min(255, int(c))) / 255 for c in parse_color(color)]
resolve_color(c) ==
  LET p == parse_color(c)
  IN  IF p.err # "none" THEN p
      ELSE Return(<<Normalize(p.rgb[1]), Normalize(p.rgb[2]),
                    Normalize(p.rgb[3])>>)

RgbStr(rgb) == Fmt3(rgb[1]) \o " " \o Fmt3(rgb[2]) \o " " \o Fmt3(rgb[3])

(***************************************************************************)
(* class Page                                                              *)
(***************************************************************************)
Page(width, height, padding_horizontal, padding_vertical) ==
  [width |-> width, height |-> height,
   padding_h |-> padding_horizontal, padding_v |-> padding_vertical,
   text_elements |-> <<>>, image_elements |-> <<>>,
   image_usages |-> <<>>, links |-> <<>>]

\* text.split(): the maximal runs of non-whitespace tokens
RECURSIVE split(_)
split(text) ==
  LET t == lstrip(text, Whitespace)
      n == IF \E i \in 1..Len(t) : t[i] \in Whitespace
           THEN (CHOOSE i \in 1..Len(t) :
                   t[i] \in Whitespace /\ \A j \in 1..(i - 1) : t[j] \notin Whitespace) - 1
           ELSE Len(t)
  IN  IF t = <<>> THEN <<>>
      ELSE <<SubSeq(t, 1, n)>> \o split(SubSeq(t, n + 1, Len(t)))

\* the loop of wrap_text over words[k..], lines and current_line carried
RECURSIVE wrap_loop(_, _, _, _)
wrap_loop(words, max_chars, lines, current_line) ==
  IF words = <<>>
  THEN IF current_line # <<>> THEN Append(lines, current_line) ELSE lines
  ELSE LET word == Head(words)
           test_line == strip(current_line \o <<" ">> \o word)
       IN  IF ByteLen(test_line) <= max_chars
           THEN wrap_loop(Tail(words), max_chars, lines, test_line)
           ELSE wrap_loop(Tail(words), max_chars,
                          Append(lines, current_line), word)

\* a faulty wrap_text whose budget is one character too wide, which C11
\* must tell apart
wrap_text_wide(text, max_width, font_size) ==
  LET max_chars == (2 * max_width) \div font_size + 1
  IN  wrap_loop(split(text), max_chars, <<>>, <<>>)

\* int(max_width / (0.5 * font_size)) for positive int arguments
wrap_text(text, max_width, font_size) ==
  LET max_chars == (2 * max_width) \div font_size
  IN  wrap_loop(split(text), max_chars, <<>>, <<>>)

\* font.replace("-", "") and the Bold/Oblique suffix; font is given as its
\* pieces around the dashes, e.g. <<"Helvetica", "-", "Bold">>
font_key(font, bold, italic) ==
  LET base_font == JoinChars(SelectSeq(font, LAMBDA piece : piece # "-"))
  IN  IF bold /\ italic THEN base_font \o "BoldOblique"
      ELSE IF bold THEN base_font \o "Bold"
      ELSE IF italic THEN base_font \o "Oblique"
      ELSE base_font

\* geometry of line i (0-based) of an add_text call, in hundredths
TextWidth(line, a) == ByteLen(line) * 50 * a.size
LineY(i, a) == 100 * a.y - i * 120 * a.size
LineX(line, a) ==
  IF a.align = "center" THEN 100 * a.x - TextWidth(line, a) \div 2
  ELSE IF a.align = "right" THEN 100 * a.x - TextWidth(line, a)
  ELSE 100 * a.x

\* the padding-box test of add_text: TRUE when the warning is printed
TextOutOfBounds(page, line, i, a) ==
  ~ (/\ 100 * page.padding_h <= LineX(line, a)
     /\ LineX(line, a) <= page.width - 100 * page.padding_h - TextWidth(line, a)
     /\ 100 * page.padding_v <= LineY(i, a)
     /\ LineY(i, a) <= page.height - 100 * page.padding_v - 100 * a.size)

\* "\n".join(stream_parts) for one line
TextFragment(line, i, a, rgb, bgrgb) ==
  LET lx == LineX(line, a)
      ly == LineY(i, a)
      tw == TextWidth(line, a)
      bgpart == IF a.background # <<>>
                THEN << <<RgbStr(bgrgb) \o " rg\n" \o Fmt2(lx) \o " "
                          \o Fmt2(ly - 20 * a.size) \o " " \o Fmt2(tw) \o " "
                          \o Fmt2(100 * a.size) \o " re f">> >>
                ELSE <<>>
      textpart == << <<RgbStr(rgb) \o " rg\nBT /"
                        \o font_key(a.font, a.bold, a.italic) \o " "
                        \o Str(a.size) \o " Tf " \o Fmt2(lx) \o " " \o Fmt2(ly)
                        \o " Td (">> \o line \o <<") Tj ET">> >>
      stroke(sy) == <<RgbStr(rgb) \o " RG\n" \o Fmt2(lx) \o " " \o Fmt2(sy)
                      \o " m " \o Fmt2(lx + tw) \o " " \o Fmt2(sy) \o " l S">>
      upart == IF a.underline THEN <<stroke(ly - 15 * a.size)>> ELSE <<>>
      spart == IF a.strike THEN <<stroke(ly + 30 * a.size)>> ELSE <<>>
  IN  JoinWith("\n", bgpart \o textpart \o upart \o spart)

LinkEntry(line, i, a) ==
  [x |-> LineX(line, a), y |-> LineY(i, a), w |-> TextWidth(line, a),
   h |-> 100 * a.size, uri |-> a.link]

\* the lines add_text draws
TextLines(a) ==
  IF a.max_width # 0 THEN wrap_text(a.text, a.max_width, a.size) ELSE <<a.text>>

\* a faulty add_text that raises where the code only warns, which C8 must
\* tell apart
add_text_bounds_fatal(page, a) ==
  LET col == resolve_color(a.color)
      lines == TextLines(a)
      bg == IF a.background # <<>> /\ lines # <<>>
            THEN resolve_color(a.background[1])
            ELSE Return(<<0, 0, 0>>)
      nwarn == Cardinality({i \in 1..Len(lines) :
                               TextOutOfBounds(page, lines[i], i - 1, a)})
      frags == [i \in 1..Len(lines) |->
                  TextFragment(lines[i], i - 1, a, col.rgb, bg.rgb)]
      lnks == IF a.link # <<>>
              THEN [i \in 1..Len(lines) |-> LinkEntry(lines[i], i - 1, a)]
              ELSE <<>>
  IN  IF col.err # "none" THEN [err |-> col.err, page |-> page, warnings |-> 0]
      ELSE IF nwarn > 0
      THEN [err |-> "ValueError", page |-> page, warnings |-> 1]
      ELSE IF bg.err # "none"
      THEN [err |-> bg.err, page |-> page, warnings |-> 0]
      ELSE [err |-> "none",
            page |-> [page EXCEPT !.text_elements = @ \o frags,
                                  !.links = @ \o lnks],
            warnings |-> 0]

\* Page.add_text: [err, page, warnings]
add_text(page, a) ==
  LET col == resolve_color(a.color)
      lines == TextLines(a)
      \* background is parsed inside the loop, once per line
      bg == IF a.background # <<>> /\ lines # <<>>
            THEN resolve_color(a.background[1])
            ELSE Return(<<0, 0, 0>>)
      nwarn == Cardinality({i \in 1..Len(lines) :
                               TextOutOfBounds(page, lines[i], i - 1, a)})
      frags == [i \in 1..Len(lines) |->
                  TextFragment(lines[i], i - 1, a, col.rgb, bg.rgb)]
      lnks == IF a.link # <<>>
              THEN [i \in 1..Len(lines) |-> LinkEntry(lines[i], i - 1, a)]
              ELSE <<>>
  IN  IF col.err # "none" THEN [err |-> col.err, page |-> page, warnings |-> 0]
      ELSE IF bg.err # "none"
      THEN [err |-> bg.err, page |-> page,
            warnings |-> IF TextOutOfBounds(page, lines[1], 0, a) THEN 1 ELSE 0]
      ELSE [err |-> "none",
            page |-> [page EXCEPT !.text_elements = @ \o frags,
                                  !.links = @ \o lnks],
            warnings |-> nwarn]

\* name in self.image_usages: the list holds (name, obj) tuples and name is
\* a str, and in Python a str never equals a tuple
PyEqStrTuple(name, entry) == FALSE
NameInUsages(name, image_usages) ==
  \E i \in 1..Len(image_usages) : PyEqStrTuple(name, image_usages[i])

\* the padding-box test of add_image, in points
ImageOutOfBounds(page, a) ==
  LET final_w == a.w * a.scale
      final_h == a.h * a.scale
  IN  \/ 100 * a.x < 100 * page.padding_h
      \/ 100 * (a.x + final_w) > page.width - 100 * page.padding_h
      \/ 100 * a.y < 100 * page.padding_v
      \/ 100 * (a.y + final_h) > page.height - 100 * page.padding_v

\* a faulty add_image that records the usage before it tests the scale,
\* which C6 must tell apart
add_image_records_first(page, a) ==
  LET page1 == [page EXCEPT !.image_usages = Append(@, <<a.name, 0>>)]
  IN  IF a.scale <= 0
      THEN [err |-> "ValueError", page |-> page1, warnings |-> 0]
      ELSE [err |-> "none",
            page |-> [page1 EXCEPT !.image_elements = Append(@, a)],
            warnings |-> IF ImageOutOfBounds(page, a) THEN 1 ELSE 0]

\* Page.add_image: [err, page, warnings]
add_image(page, a) ==
  IF a.scale <= 0 THEN [err |-> "ValueError", page |-> page, warnings |-> 0]
  ELSE [err |-> "none",
        page |-> [page EXCEPT
                    !.image_usages =
                       IF ~ NameInUsages(a.name, @)
                       THEN Append(@, <<a.name, 0>>) ELSE @,
                    !.image_elements = Append(@, a)],
        warnings |-> IF ImageOutOfBounds(page, a) THEN 1 ELSE 0]

\* the caption draw command that get_stream_bytes and save both format
CaptionCmd(e, img_w) ==
  LET final_w == (IF e.w # 0 THEN e.w ELSE img_w) * e.scale
      caption_x == 100 * e.x + (100 * final_w - 500 * ByteLen(e.caption)) \div 2
      caption_y == 100 * (e.y - 12)
  IN  <<"0 0 0 rg\nBT /Helvetica 10 Tf " \o Fmt2(caption_x) \o " "
        \o Fmt2(caption_y) \o " Td (">> \o e.caption \o <<") Tj ET">>

ImageDraw(e, size) ==
  LET final_w == (IF e.w # 0 THEN e.w ELSE size[1]) * e.scale
      final_h == (IF e.h # 0 THEN e.h ELSE size[2]) * e.scale
  IN  <<"q " \o Str(final_w) \o " 0 0 " \o Str(final_h) \o " " \o Str(e.x)
        \o " " \o Str(e.y) \o " cm /" \o e.name \o " Do Q">>

\* Page.get_stream_bytes: [err, bytes]
get_stream_bytes(page, image_sizes) ==
  LET els == page.image_elements
      image_streams ==
        Flatten([i \in 1..Len(els) |->
                   <<ImageDraw(els[i], image_sizes[els[i].name])>>
                   \o (IF els[i].caption # <<>>
                       THEN <<CaptionCmd(els[i], image_sizes[els[i].name][1])>>
                       ELSE <<>>)])
  IN  IF \E i \in 1..Len(els) : els[i].name \notin DOMAIN image_sizes
      THEN [err |-> "ValueError", bytes |-> <<>>]
      ELSE [err |-> "none",
            bytes |-> JoinWith("\n", page.text_elements \o image_streams)]

(***************************************************************************)
(* class PDF                                                               *)
(***************************************************************************)
upper_char(c) ==
  IF \E i \in 1..26 : Lower[i] = c
  THEN Upper[CHOOSE i \in 1..26 : Lower[i] = c]
  ELSE c

upper(chars) == JoinChars([i \in 1..Len(chars) |-> upper_char(chars[i])])

\* STANDARD_SIZES.get(name, (612, 792)), in hundredths of a point
STANDARD_SIZES(name) ==
  IF name = "A4" THEN <<59528, 84189>>
  ELSE IF name = "A3" THEN <<84189, 119055>>
  ELSE <<61200, 79200>>

\* PDF.add_page: the new Page; width/height 0 stand for None
add_page(a) ==
  LET std == STANDARD_SIZES(upper(a.page_size))
      wh == IF a.width # 0 /\ a.height # 0
            THEN <<100 * a.width, 100 * a.height>>
            ELSE IF lower(a.orientation) = "landscape"
                 THEN <<std[2], std[1]>>
                 ELSE std
  IN  Page(wh[1], wh[2], a.padding_horizontal, a.padding_vertical)

\* a faulty add_object that numbers from zero, which C1 must tell apart
add_object_zero_based(store, content) ==
  Append(store, [num |-> Len(store), data |-> content])

\* PDF.add_object: the store with content appended under the next number
add_object(store, content) ==
  Append(store, [num |-> Len(store) + 1, data |-> content])

\* the number add_object returned for the object it appended last
last_obj(store) == store[Len(store)].num

\* the image stream object of embed_image
image_stream(img, compress) ==
  LET img_data == IF compress THEN img.jpeg ELSE img.rgb
  IN  <<"<< /Type /XObject /Subtype /Image /Width ",
        Str(img.width) \o " /Height " \o Str(img.height)
        \o " /ColorSpace /DeviceRGB /BitsPerComponent 8 "
        \o (IF compress THEN "/Filter /DCTDecode " ELSE "") \o "/Length ",
        Str(ByteLen(img_data)), " >>\n", "stream\n">>
      \o img_data \o <<"\nendstream">>

\* PDF.embed_image: [objects, images, name]
embed_image(store, registry, img, compress) ==
  LET store1 == add_object(store, image_stream(img, compress))
      obj_num == last_obj(store1)
      name == "Im" \o Str(obj_num)
  IN  [objects |-> store1,
       images |-> (name :> [obj_num |-> obj_num, width |-> img.width,
                            height |-> img.height]) @@ registry,
       name |-> name]

(***************************************************************************)
(* PDF.save, lines 516-641: fonts, image resolution, content streams, page *)
(* nodes and the page tree.                                                *)
(***************************************************************************)
\* a font table without the bold oblique face, which C7 must tell apart
font_map_three ==
  << <<"Helvetica", "Helvetica">>, <<"HelveticaBold", "Helvetica-Bold">>,
     <<"HelveticaOblique", "Helvetica-Oblique">> >>

font_map ==
  << <<"Helvetica", "Helvetica">>, <<"HelveticaBold", "Helvetica-Bold">>,
     <<"HelveticaOblique", "Helvetica-Oblique">>,
     <<"HelveticaBoldOblique", "Helvetica-BoldOblique">> >>

font_object(k, v) ==
  <<"<< /Type /Font /Subtype /Type1 /Name /", k, " /BaseFont /", v, " >>">>

RECURSIVE add_fonts(_, _)
add_fonts(store, k) ==
  IF k > Len(font_map) THEN store
  ELSE add_fonts(add_object(store, font_object(font_map[k][1], font_map[k][2])),
                 k + 1)

\* font_objs: the numbers add_object returned for the fonts, in font_map
\* order; base is the size of the store before the fonts were added
font_objs(store, base) == [k \in 1..Len(font_map) |-> store[base + k].num]

font_resource_str(fonts) ==
  JoinChars([j \in 1..(2 * Len(font_map) - 1) |->
     IF j % 2 = 0 THEN " "
     ELSE "/" \o font_map[(j + 1) \div 2][1] \o " "
          \o Str(fonts[(j + 1) \div 2]) \o " 0 R"])

image_sizes(registry) ==
  [n \in DOMAIN registry |-> <<registry[n].width, registry[n].height>>]

\* the resolution loop over one page's image_usages, from entry i on
RECURSIVE resolve_usages(_, _, _)
resolve_usages(usages, registry, i) ==
  IF i > Len(usages) THEN [err |-> "none", usages |-> usages]
  ELSE IF usages[i][1] \notin DOMAIN registry
  THEN [err |-> "ValueError", usages |-> usages]
  ELSE resolve_usages([usages EXCEPT ![i] = <<usages[i][1],
                                               registry[usages[i][1]].obj_num>>],
                      registry, i + 1)

\* the resolution loop over the pages, from page p on
RECURSIVE resolve_pages(_, _, _)
resolve_pages(pgs, registry, p) ==
  IF p > Len(pgs) THEN [err |-> "none", pages |-> pgs]
  ELSE LET r == resolve_usages(pgs[p].image_usages, registry, 1)
           pgs1 == [pgs EXCEPT ![p].image_usages = r.usages]
       IN  IF r.err # "none" THEN [err |-> r.err, pages |-> pgs1]
           ELSE resolve_pages(pgs1, registry, p + 1)

\* the captions save appends to the stream of a page
save_captions(page, sizes) ==
  LET els == page.image_elements
  IN  Flatten([i \in 1..Len(els) |->
        IF els[i].caption # <<>>
        THEN LET c == CaptionCmd(els[i], sizes[els[i].name][1])
             IN  <<"\n" \o c[1]>> \o Tail(c)
        ELSE <<>>])

\* the page number save appends when show_page_numbers is set
page_number_cmd(page, idx) ==
  LET number_text == Str(idx)
      text_width == 500 * Len(number_text)
      x == (page.width - text_width) \div 2
  IN  <<"\n0 0 0 rg\nBT /Helvetica 10 Tf " \o Fmt2(x) \o " " \o Fmt2(1500)
        \o " Td (" \o number_text \o ") Tj ET">>

content_object(stream) ==
  <<"<< /Length ", Str(ByteLen(stream)), " >>\nstream\n">> \o stream
  \o <<"\nendstream">>

\* the content-stream loop from page idx on: [err, objects, nums]
RECURSIVE build_contents(_, _, _, _, _, _)
build_contents(store, pgs, sizes, show, idx, nums) ==
  IF idx > Len(pgs) THEN [err |-> "none", objects |-> store, nums |-> nums]
  ELSE LET s == get_stream_bytes(pgs[idx], sizes)
           stream == s.bytes \o save_captions(pgs[idx], sizes)
                     \o (IF show THEN page_number_cmd(pgs[idx], idx) ELSE <<>>)
           store1 == add_object(store, content_object(stream))
       IN  IF s.err # "none"
           THEN [err |-> s.err, objects |-> store, nums |-> nums]
           ELSE build_contents(store1, pgs, sizes, show, idx + 1,
                               Append(nums, last_obj(store1)))

annot_object(l) ==
  <<"<< /Type /Annot /Subtype /Link /Rect [",
    Fmt2(l.x) \o " " \o Fmt2(l.y) \o " " \o Fmt2(l.x + l.w) \o " "
    \o Fmt2(l.y + l.h) \o "] /Border [0 0 0] /A << /S /URI /URI (">>
  \o l.uri \o <<") >> >>">>

\* one annotation object per link of the page, from link k on
RECURSIVE add_annots(_, _, _)
add_annots(store, links, k) ==
  IF k > Len(links) THEN store
  ELSE add_annots(add_object(store, annot_object(links[k])), links, k + 1)

xobj_str(page) ==
  IF page.image_usages # <<>>
  THEN "/XObject << "
       \o JoinChars([j \in 1..(2 * Len(page.image_usages) - 1) |->
            IF j % 2 = 0 THEN " "
            ELSE "/" \o page.image_usages[(j + 1) \div 2][1] \o " "
                 \o Str(page.image_usages[(j + 1) \div 2][2]) \o " 0 R"])
       \o " >>"
  ELSE ""

\* the page node; annots are the numbers of the page's annotation objects
page_object(page, content_ref, fonts, annots) ==
  LET n == Len(annots)
      annotations == JoinChars([j \in 1..(2 * n - 1) |->
                        IF j % 2 = 0 THEN " "
                        ELSE Str(annots[(j + 1) \div 2]) \o " 0 R"])
      annots_str == IF n > 0 THEN "/Annots [" \o annotations \o "]" ELSE ""
      resource_str == "/Font << " \o font_resource_str(fonts) \o " >>"
                      \o (IF xobj_str(page) # "" THEN " " \o xobj_str(page)
                          ELSE "")
  IN  <<"<< /Type /Page /Parent ", "{pages}",
        " 0 R /Resources << " \o resource_str \o " >> /Contents ",
        Str(content_ref),
        " 0 R /MediaBox [0 0 " \o Fmt2(page.width) \o " " \o Fmt2(page.height)
        \o "] " \o annots_str \o " >>">>

\* the page-node loop from page i on: [objects, nums]
RECURSIVE build_pages(_, _, _, _, _, _)
build_pages(store, pgs, content_obj_nums, fonts, i, nums) ==
  IF i > Len(content_obj_nums) THEN [objects |-> store, nums |-> nums]
  ELSE LET store1 == add_annots(store, pgs[i].links, 1)
           annots == [k \in 1..Len(pgs[i].links) |-> store1[Len(store) + k].num]
           store2 == add_object(store1,
                        page_object(pgs[i], content_obj_nums[i], fonts, annots))
       IN  build_pages(store2, pgs, content_obj_nums, fonts, i + 1,
                       Append(nums, last_obj(store2)))

pages_object(nums) ==
  <<"<< /Type /Pages /Kids [",
    JoinChars([j \in 1..(2 * Len(nums) - 1) |->
       IF j % 2 = 0 THEN " " ELSE Str(nums[(j + 1) \div 2]) \o " 0 R"]),
    "] /Count ", Str(Len(nums)), " >>">>

\* a faulty catalog that names itself as the page tree, which C4 must tell
\* apart
catalog_object_self(pages_ref) ==
  <<"<< /Type /Catalog /Pages ", Str(pages_ref + 1), " 0 R >>">>

catalog_object(pages_ref) ==
  <<"<< /Type /Catalog /Pages ", Str(pages_ref), " 0 R >>">>

\* a faulty placeholder pass that resolves the placeholder to the object
\* after the page tree, which C15 must tell apart
replace_pages_next(data, pages_ref) ==
  [i \in 1..Len(data) |->
     IF data[i] = "{pages}" THEN Str(pages_ref + 1) ELSE data[i]]

\* the placeholder pass: data.replace(b"{pages}", str(pages_obj).encode())
replace_pages(data, pages_ref) ==
  [i \in 1..Len(data) |-> IF data[i] = "{pages}" THEN Str(pages_ref) ELSE data[i]]

fixed_objects(store, pages_ref) ==
  [i \in 1..Len(store) |->
     [num |-> store[i].num, data |-> replace_pages(store[i].data, pages_ref)]]

\* the object loop of the write pass from object i on, pos being f.tell():
\* [writes, offsets, pos]
RECURSIVE write_objects(_, _, _, _, _)
write_objects(store, i, pos, writes, offsets) ==
  IF i > Len(store) THEN [writes |-> writes, offsets |-> offsets, pos |-> pos]
  ELSE LET header == <<Str(store[i].num), " 0 obj\n">>
           trailer == <<"\nendobj\n">>
       IN  write_objects(store, i + 1,
              pos + ByteLen(header) + ByteLen(store[i].data) + ByteLen(trailer),
              writes \o <<header, store[i].data, trailer>>,
              Append(offsets, pos))

\* a faulty write pass that counts the offsets from the end of the header
\* line, which C3 must tell apart
written_file_after_header(store, catalog_ref) ==
  LET head == <<"%PDF-1.4\n">>
      w == write_objects(store, 1, 0, <<head>>, <<0>>)
      xref_offset == w.pos
  IN  w.writes
      \o << <<"xref\n0 ", Str(Len(w.offsets)), "\n">>,
            <<"0000000000 65535 f \n">> >>
      \o [k \in 1..(Len(w.offsets) - 1) |->
            <<Fmt010d(w.offsets[k + 1]), " 00000 n \n">>]
      \o << <<"trailer\n">>,
            <<"<< /Size ", Str(Len(w.offsets)), " /Root ", Str(catalog_ref),
              " 0 R >>\n">>,
            <<"startxref\n">>,
            <<Str(xref_offset), "\n">>,
            <<"%%EOF\n">> >>

\* the bytes save writes, one element per f.write call
written_file(store, catalog_ref) ==
  LET head == <<"%PDF-1.4\n">>
      w == write_objects(store, 1, ByteLen(head), <<head>>, <<0>>)
      xref_offset == w.pos
  IN  w.writes
      \o << <<"xref\n0 ", Str(Len(w.offsets)), "\n">>,
            <<"0000000000 65535 f \n">> >>
      \o [k \in 1..(Len(w.offsets) - 1) |->
            <<Fmt010d(w.offsets[k + 1]), " 00000 n \n">>]
      \o << <<"trailer\n">>,
            <<"<< /Size ", Str(Len(w.offsets)), " /Root ", Str(catalog_ref),
              " 0 R >>\n">>,
            <<"startxref\n">>,
            <<Str(xref_offset), "\n">>,
            <<"%%EOF\n">> >>

(***************************************************************************)
(* Inputs of the calls.                                                    *)
(***************************************************************************)
Portrait == <<"p", "o", "r", "t", "r", "a", "i", "t">>
Landscape == <<"L", "a", "n", "d", "s", "c", "a", "p", "e">>

PageCalls ==
  { [page_size |-> <<"A", "4">>, orientation |-> Portrait, width |-> 0,
     height |-> 0, padding_horizontal |-> 50, padding_vertical |-> 50],
    [page_size |-> <<"a", "3">>, orientation |-> Landscape, width |-> 0,
     height |-> 0, padding_horizontal |-> 60, padding_vertical |-> 60] }

\* the decoded images: pixel size, raw RGB bytes, JPEG bytes
RawImage == [width |-> 3, height |-> 1, rgb |-> <<"ab", "{pages}">>,
             jpeg |-> <<"JFIF">>, compress |-> FALSE]
JpegImage == [width |-> 1, height |-> 1, rgb |-> <<"abc">>,
              jpeg |-> <<"JFIF">>, compress |-> TRUE]
ImageCalls == {RawImage, JpegImage}

DefaultText ==
  [text |-> <<"Hello">>, x |-> 100, y |-> 700, size |-> 24,
   color |-> ColStr(<<"b", "l", "a", "c", "k">>), font |-> <<"Helvetica">>,
   bold |-> FALSE, italic |-> FALSE, align |-> "left", underline |-> FALSE,
   strike |-> FALSE, background |-> <<>>, max_width |-> 0, link |-> <<>>]

TextCalls ==
  { DefaultText,
    [DefaultText EXCEPT !.x = 10],
    [DefaultText EXCEPT !.text = <<"aa", " ", "{pages}", " ", " ", "c">>,
                        !.y = 300, !.size = 10, !.max_width = 20,
                        !.color = ColStr(<<"#", "F", "0", "0">>),
                        !.bold = TRUE, !.align = "center", !.strike = TRUE,
                        !.underline = TRUE,
                        !.background = <<ColTuple(<<300, 128, 0>>)>>,
                        !.link = <<"http://x/", "{pages}">>],
    [DefaultText EXCEPT !.color = ColStr(<<"F", "0", "0">>)] }

ImageShapes ==
  { [x |-> 100, y |-> 100, w |-> 0, h |-> 0, scale |-> 1, caption |-> <<>>],
    [x |-> 10, y |-> 100, w |-> 200, h |-> 150, scale |-> 2,
     caption |-> <<"Fig", " ", "{pages}">>],
    [x |-> 100, y |-> 100, w |-> 200, h |-> 150, scale |-> 0,
     caption |-> <<"Fig">>],
    [x |-> 100, y |-> 100, w |-> 0, h |-> 0, scale |-> -1, caption |-> <<>>] }

\* a name embed_image never returns on a document of this size
UnknownImage == "Im99"

ImageCall(name, shape) ==
  [name |-> name, x |-> shape.x, y |-> shape.y, w |-> shape.w, h |-> shape.h,
   scale |-> shape.scale, caption |-> shape.caption]

RawObjects == { <<"raw ", "{pages}">> }

Call(op, err, warnings) == [op |-> op, err |-> err, warnings |-> warnings]

NoProbe == [err |-> "unset", frags |-> <<>>]

\* no wrap_text call and no styled add_text call probed
NoWrap == [text |-> <<>>, max_width |-> 0, font_size |-> 0, done |-> FALSE,
           lines |-> <<>>]
NoStyle == [a |-> <<>>, done |-> FALSE, err |-> "unset", before |-> <<>>,
            after |-> <<>>]

(***************************************************************************)
(* The document after construction, and the calls.                         *)
(***************************************************************************)
Init ==
  /\ pages = <<>>
  /\ objects = <<>>
  /\ images = [n \in {} |-> 0]
  /\ file = <<>>
  /\ file_exists = FALSE
  /\ pc = "idle"
  /\ show_page_numbers = FALSE
  /\ page_obj_nums = <<>>
  /\ pages_obj = 0
  /\ catalog_obj = 0
  /\ calls = 0
  /\ save_calls = 0
  /\ lastCall = Call("init", "none", 0)
  /\ warned = FALSE
  /\ color_probe = [h |-> <<>>, bare |-> NoProbe, marked |-> NoProbe,
                    doubled |-> NoProbe]
  /\ wrap_probe = NoWrap
  /\ style_probe = NoStyle

\* a construction call is possible: save is not running and the bound on
\* the number of calls is not reached
CanCall ==
  /\ pc = "idle"
  /\ calls < MaxCalls

AddPage(a) ==
  /\ CanCall
  /\ calls' = calls + 1
  /\ pages' = Append(pages, add_page(a))
  /\ lastCall' = Call("add_page", "none", 0)
  /\ UNCHANGED <<objects, images, file, file_exists, pc, save_locals,
                 save_calls, warned, probes>>

AddObject(content) ==
  /\ CanCall
  /\ calls' = calls + 1
  /\ objects' = add_object(objects, content)
  /\ lastCall' = Call("add_object", "none", 0)
  /\ UNCHANGED <<pages, images, file, file_exists, pc, save_locals,
                 save_calls, warned, probes>>

EmbedImage(img, compress) ==
  /\ CanCall
  /\ calls' = calls + 1
  /\ \E r \in {embed_image(objects, images, img, compress)} :
       /\ objects' = r.objects
       /\ images' = r.images
  /\ lastCall' = Call("embed_image", "none", 0)
  /\ UNCHANGED <<pages, file, file_exists, pc, save_locals, save_calls,
                 warned, probes>>

AddText(p, a) ==
  /\ CanCall
  /\ calls' = calls + 1
  /\ \E r \in {add_text(pages[p], a)} :
       /\ pages' = [pages EXCEPT ![p] = r.page]
       /\ lastCall' = Call("add_text", r.err, r.warnings)
       /\ warned' = (warned \/ r.warnings > 0)
  /\ UNCHANGED <<objects, images, file, file_exists, pc, save_locals,
                 save_calls, probes>>

AddImage(p, a) ==
  /\ CanCall
  /\ calls' = calls + 1
  /\ \E r \in {add_image(pages[p], a)} :
       /\ pages' = [pages EXCEPT ![p] = r.page]
       /\ lastCall' = Call("add_image", r.err, r.warnings)
       /\ warned' = (warned \/ r.warnings > 0)
  /\ UNCHANGED <<objects, images, file, file_exists, pc, save_locals,
                 save_calls, probes>>

(***************************************************************************)
(* save, in the three stretches of its body: lines 516-641 build every     *)
(* object up to the page tree (and may raise), lines 643-653 resolve the   *)
(* placeholder and add the catalog, lines 655-680 write the file.  Nothing *)
(* else runs between them.                                                 *)
(***************************************************************************)
\* a faulty save that swallows the ValueError, which C5 must tell apart
save_error_swallowed(resolve_err, stream_err) == "none"

\* what save raises before the page nodes are built: the resolution loop's
\* ValueError (line 548), else get_stream_bytes's (line 325), else nothing
save_error(resolve_err, stream_err) ==
  IF resolve_err # "none" THEN resolve_err ELSE stream_err

SaveBody(show) ==
  /\ pc = "idle"
  /\ save_calls' = save_calls + 1
  /\ show_page_numbers' = show
  /\ \E s1 \in {add_fonts(objects, 1)},
        r \in {resolve_pages(pages, images, 1)} :
     \E fonts \in {font_objs(s1, Len(objects))},
        c \in {build_contents(s1, r.pages, image_sizes(images), show, 1,
                              <<>>)} :
     \E err \in {save_error(r.err,
                            IF r.err = "none" THEN c.err ELSE "none")} :
       IF err # "none"
       THEN /\ pages' = r.pages
            /\ objects' = IF r.err # "none" THEN s1 ELSE c.objects
            /\ pc' = "idle"
            /\ lastCall' = Call("save", err, 0)
            /\ UNCHANGED <<page_obj_nums, pages_obj>>
       ELSE \E pg \in {build_pages(c.objects, r.pages, c.nums, fonts, 1,
                                    <<>>)} :
            \E s4 \in {add_object(pg.objects, pages_object(pg.nums))} :
              /\ pages' = r.pages
              /\ objects' = s4
              /\ page_obj_nums' = pg.nums
              /\ pages_obj' = last_obj(s4)
              /\ pc' = "fix"
              /\ lastCall' = Call("save", "none", 0)
  /\ UNCHANGED <<images, file, file_exists, catalog_obj, calls, warned, probes>>

SaveBuild(show) ==
  /\ save_calls < MaxSaves
  /\ SaveBody(show)

\* save called once more than MaxSaves allows
SaveAgain(show) ==
  /\ save_calls <= MaxSaves
  /\ SaveBody(show)

SaveFix ==
  /\ pc = "fix"
  /\ objects' = add_object(fixed_objects(objects, pages_obj),
                           catalog_object(pages_obj))
  /\ catalog_obj' = last_obj(objects')
  /\ pc' = "write"
  /\ UNCHANGED <<pages, images, file, file_exists, show_page_numbers,
                 page_obj_nums, pages_obj, calls, save_calls, lastCall,
                 warned, probes>>

SaveWrite ==
  /\ pc = "write"
  /\ file' = written_file(objects, catalog_obj)
  /\ file_exists' = TRUE
  /\ pc' = "idle"
  /\ UNCHANGED <<pages, objects, images, save_locals, calls, save_calls,
                 lastCall, warned, probes>>

Construct ==
  \/ \E a \in PageCalls : AddPage(a)
  \/ \E content \in RawObjects : AddObject(content)
  \/ \E img \in ImageCalls : EmbedImage(img, img.compress)
  \/ \E p \in 1..Len(pages), a \in TextCalls : AddText(p, a)
  \/ \E p \in 1..Len(pages), name \in DOMAIN images \cup {UnknownImage},
        shape \in ImageShapes : AddImage(p, ImageCall(name, shape))

Next ==
  \/ Construct
  \/ \E show \in BOOLEAN : SaveBuild(show)
  \/ SaveFix
  \/ SaveWrite

Spec == Init /\ [][Next]_vars

\* the same documents, saved up to MaxSaves + 1 times
NextResave ==
  \/ Construct
  \/ \E show \in BOOLEAN : SaveAgain(show)
  \/ SaveFix
  \/ SaveWrite

SpecResave == Init /\ [][NextResave]_vars

(***************************************************************************)
(* Colour resolution on its own: add_text is called on a fresh A4 page     *)
(* with the colour given as the hex digits h, as "#" + h, and as "#" + h   *)
(* with every digit doubled, and what each call raised and drew is kept.   *)
(***************************************************************************)
ProbeAlphabet == {"0", "8", "c", "F"}

HexStrings ==
  [1..3 -> ProbeAlphabet] \cup [1..6 -> ProbeAlphabet]

ProbePage == Page(59528, 84189, 50, 50)

Probe(chars) ==
  LET r == add_text(ProbePage, [DefaultText EXCEPT !.color = ColStr(chars)])
  IN  [err |-> r.err, frags |-> r.page.text_elements]

Doubled(h) == [i \in 1..(2 * Len(h)) |-> h[(i + 1) \div 2]]

InitColor ==
  /\ pages = <<>>
  /\ objects = <<>>
  /\ images = [n \in {} |-> 0]
  /\ file = <<>>
  /\ file_exists = FALSE
  /\ pc = "idle"
  /\ show_page_numbers = FALSE
  /\ page_obj_nums = <<>>
  /\ pages_obj = 0
  /\ catalog_obj = 0
  /\ calls = 0
  /\ save_calls = 0
  /\ lastCall = Call("init", "none", 0)
  /\ warned = FALSE
  /\ wrap_probe = NoWrap
  /\ style_probe = NoStyle
  /\ \E h \in HexStrings :
        color_probe = [h |-> h, bare |-> NoProbe, marked |-> NoProbe,
                       doubled |-> NoProbe]

ProbeBare ==
  /\ color_probe.h # <<>>
  /\ color_probe.bare = NoProbe
  /\ color_probe' = [color_probe EXCEPT !.bare = Probe(color_probe.h)]
  /\ UNCHANGED <<doc, file, file_exists, pc, save_locals, calls, save_calls,
                 lastCall, warned, wrap_probe, style_probe>>

ProbeMarked ==
  /\ color_probe.h # <<>>
  /\ color_probe.marked = NoProbe
  /\ color_probe' =
        [color_probe EXCEPT !.marked = Probe(<<"#">> \o color_probe.h)]
  /\ UNCHANGED <<doc, file, file_exists, pc, save_locals, calls, save_calls,
                 lastCall, warned, wrap_probe, style_probe>>

ProbeDoubled ==
  /\ Len(color_probe.h) = 3
  /\ color_probe.doubled = NoProbe
  /\ color_probe' =
        [color_probe EXCEPT !.doubled = Probe(<<"#">> \o Doubled(color_probe.h))]
  /\ UNCHANGED <<doc, file, file_exists, pc, save_locals, calls, save_calls,
                 lastCall, warned, wrap_probe, style_probe>>

NextColor == ProbeBare \/ ProbeMarked \/ ProbeDoubled

SpecColor == InitColor /\ [][NextColor]_vars

(***************************************************************************)
(* wrap_text on its own: Page.wrap_text is called once with a text of at   *)
(* most MaxLen tokens, a max_width and a font_size, and the lines it       *)
(* returned are kept.                                                      *)
(***************************************************************************)
WrapAlphabet == {"a", "bbbb", " "}
WrapTexts == UNION {[1..n -> WrapAlphabet] : n \in 0..MaxLen}
WrapWidths == {1, 10, 15, 25}
WrapSizes == {4, 10}

\* a new PDF() on which nothing was called
FreshDocument ==
  /\ pages = <<>>
  /\ objects = <<>>
  /\ images = [n \in {} |-> 0]
  /\ file = <<>>
  /\ file_exists = FALSE
  /\ pc = "idle"
  /\ show_page_numbers = FALSE
  /\ page_obj_nums = <<>>
  /\ pages_obj = 0
  /\ catalog_obj = 0
  /\ calls = 0
  /\ save_calls = 0
  /\ lastCall = Call("init", "none", 0)
  /\ warned = FALSE

InitWrap ==
  /\ FreshDocument
  /\ color_probe = [h |-> <<>>, bare |-> NoProbe, marked |-> NoProbe,
                    doubled |-> NoProbe]
  /\ style_probe = NoStyle
  /\ \E text \in WrapTexts, max_width \in WrapWidths, font_size \in WrapSizes :
        wrap_probe = [text |-> text, max_width |-> max_width,
                      font_size |-> font_size, done |-> FALSE, lines |-> <<>>]

WrapText ==
  /\ ~ wrap_probe.done
  /\ wrap_probe' =
        [wrap_probe EXCEPT
           !.done = TRUE,
           !.lines = wrap_text(wrap_probe.text, wrap_probe.max_width,
                               wrap_probe.font_size)]
  /\ UNCHANGED <<doc, file, file_exists, pc, save_locals, calls, save_calls,
                 lastCall, warned, color_probe, style_probe>>

NextWrap == WrapText

SpecWrap == InitWrap /\ [][NextWrap]_vars

(***************************************************************************)
(* Reading the store and the written file.                                 *)
(***************************************************************************)
IsFont(o) == o.data[1] = "<< /Type /Font /Subtype /Type1 /Name /"
IsImage(o) == o.data[1] = "<< /Type /XObject /Subtype /Image /Width "
IsContent(o) == o.data[1] = "<< /Length "
IsAnnot(o) == o.data[1] = "<< /Type /Annot /Subtype /Link /Rect ["
IsPageNode(o) == o.data[1] = "<< /Type /Page /Parent "
IsPageTree(o) == o.data[1] = "<< /Type /Pages /Kids ["
IsCatalog(o) == o.data[1] = "<< /Type /Catalog /Pages "
IsRaw(o) == o.data[1] = "raw "

Count(store, Is(_)) == Cardinality({i \in 1..Len(store) : Is(store[i])})

\* save has just returned normally: no call has been made since
SaveCompleted ==
  /\ pc = "idle"
  /\ lastCall.op = "save"
  /\ lastCall.err = "none"

\* the number of objects in a written file of 4n + 8 writes
FileObjects(f) == (Len(f) - 8) \div 4

\* the number of bytes that writes lo..hi of the file put out
RECURSIVE WriteLenIn(_, _, _)
WriteLenIn(f, lo, hi) ==
  IF lo > hi THEN 0
  ELSE IF lo = hi THEN ByteLen(f[lo])
  ELSE WriteLenIn(f, lo, (lo + hi) \div 2)
       + WriteLenIn(f, (lo + hi) \div 2 + 1, hi)

\* the byte positions at which writes lo..hi of the file begin, write lo
\* beginning at base
RECURSIVE BytePosIn(_, _, _, _)
BytePosIn(f, lo, hi, base) ==
  IF lo > hi THEN <<>>
  ELSE IF lo = hi THEN <<base>>
  ELSE BytePosIn(f, lo, (lo + hi) \div 2, base)
       \o BytePosIn(f, (lo + hi) \div 2 + 1, hi,
                    base + WriteLenIn(f, lo, (lo + hi) \div 2))

BytePos(f) == BytePosIn(f, 1, Len(f), 0)

\* the object bodies of a written file
FileBody(f, i) == f[3 * i]

\* the /Length an object body declares and the payload between its stream
\* markers; <<>> for an object that is no stream
DeclaredLength(data) ==
  IF data[1] = "<< /Length " THEN <<data[2]>>
  ELSE IF data[1] = "<< /Type /XObject /Subtype /Image /Width " THEN <<data[3]>>
  ELSE <<>>

Payload(data) ==
  IF data[1] = "<< /Length " THEN SubSeq(data, 4, Len(data) - 1)
  ELSE SubSeq(data, 6, Len(data) - 1)

(***************************************************************************)
(* C1.  The k-th object added to the store carries identity k: identities  *)
(* start at 1, increase by one, and the entry at position k of the store   *)
(* has identity k, whatever sequence of add_object, embed_image and save   *)
(* calls added the objects.                                                *)
(***************************************************************************)
C1_IdentitiesSequential ==
  \A k \in 1..Len(objects) : objects[k].num = k

\* a store filled by a direct add_object, by embed_image and by save
C1_Witness ==
  /\ SaveCompleted
  /\ \E i, j \in 1..Len(objects) : IsRaw(objects[i]) /\ IsImage(objects[j])
  /\ IsCatalog(objects[Len(objects)])

(***************************************************************************)
(* C2.  In the file save wrote, every object that declares a /Length       *)
(* declares exactly the number of payload bytes between its stream and     *)
(* endstream markers.                                                      *)
(***************************************************************************)
C2_DeclaredLengthsExact ==
  SaveCompleted =>
    \A i \in 1..FileObjects(file) :
      DeclaredLength(FileBody(file, i)) # <<>> =>
        DeclaredLength(FileBody(file, i))
          = <<Str(ByteLen(Payload(FileBody(file, i))))>>

(***************************************************************************)
(* C3.  After a completed save the cross-reference section is the free     *)
(* entry for identity 0 followed by one offset per stored object in        *)
(* identity order, the i-th offset is the byte position at which the       *)
(* header "i 0 obj" begins, and startxref is the byte position at which    *)
(* the cross-reference section begins.                                     *)
(***************************************************************************)
C3_XrefOffsetsExact ==
  SaveCompleted =>
    \A n \in {Len(objects)}, at \in {BytePos(file)} :
        /\ Len(file) = 4 * n + 8
        /\ file[3 * n + 2] = <<"xref\n0 ", Str(n + 1), "\n">>
        /\ file[3 * n + 3] = <<"0000000000 65535 f \n">>
        /\ \A i \in 1..n :
             /\ file[3 * i - 1] = <<Str(i), " 0 obj\n">>
             /\ file[3 * n + 3 + i]
                  = <<Fmt010d(at[3 * i - 1]), " 00000 n \n">>
        /\ file[4 * n + 6] = <<"startxref\n">>
        /\ file[4 * n + 7] = <<Str(at[3 * n + 2]), "\n">>

\* a written file with a stream object after the first object
C3_Witness ==
  /\ SaveCompleted
  /\ \E i \in 2..Len(objects) : IsContent(objects[i])
  /\ \E i \in 1..Len(objects) : IsAnnot(objects[i])

(***************************************************************************)
(* C4.  When save starts writing, the catalog is the last and highest      *)
(* identity of the store and references the page tree this save created;   *)
(* the trailer then written names the catalog as /Root and the number of   *)
(* stored objects plus one as /Size.                                       *)
(***************************************************************************)
C4_CatalogLastAndRoot ==
  /\ pc = "write" =>
       /\ catalog_obj = Len(objects)
       /\ \A i \in 1..Len(objects) : objects[i].num <= catalog_obj
       /\ objects[catalog_obj].data
            = <<"<< /Type /Catalog /Pages ", Str(pages_obj), " 0 R >>">>
       /\ pages_obj = Len(objects) - 1
       /\ IsPageTree(objects[pages_obj])
  /\ SaveCompleted =>
       file[Len(file) - 3]
         = <<"<< /Size ", Str(Len(objects) + 1), " /Root ", Str(catalog_obj),
             " 0 R >>\n">>

\* save is about to write a document that has pages
C4_Witness ==
  /\ pc = "write"
  /\ Len(page_obj_nums) = 2

(***************************************************************************)
(* C5.  A save of a document on which some page has recorded the use of an *)
(* image name that embed_image never returned raises ValueError before the *)
(* output file is opened: the file is left as it was.                      *)
(***************************************************************************)
Unresolved ==
  \E p \in 1..Len(pages) : \E i \in 1..Len(pages[p].image_usages) :
    pages[p].image_usages[i][1] \notin DOMAIN images

C5_UnresolvedImageRaisesBeforeOpen ==
  [][(pc = "idle" /\ Unresolved /\ save_calls' = save_calls + 1) =>
       /\ lastCall'.op = "save"
       /\ lastCall'.err = "ValueError"
       /\ pc' = "idle"
       /\ file' = file
       /\ file_exists' = file_exists]_vars

\* save has raised ValueError and there is no output file
C5_Witness ==
  /\ pc = "idle"
  /\ lastCall.op = "save"
  /\ lastCall.err = "ValueError"
  /\ Unresolved
  /\ ~ file_exists

(***************************************************************************)
(* C6.  add_image with scale <= 0 raises ValueError and changes nothing:   *)
(* the pages (placements, usages, text fragments, links), the object store *)
(* and the image registry are as before the call.                          *)
(***************************************************************************)
C6_BadScaleRaisesAndKeepsState ==
  [][\A p \in 1..Len(pages), name \in DOMAIN images \cup {UnknownImage},
        shape \in ImageShapes :
       (shape.scale <= 0 /\ lastCall'.op = "add_image"
          /\ AddImage(p, ImageCall(name, shape))) =>
         /\ lastCall'.op = "add_image"
         /\ lastCall'.err = "ValueError"
         /\ UNCHANGED <<pages, objects, images, file, file_exists>>]_vars

\* add_image has raised on a page that already holds a placement
C6_Witness ==
  /\ lastCall.op = "add_image"
  /\ lastCall.err = "ValueError"
  /\ \E p \in 1..Len(pages) : pages[p].image_usages # <<>>

(***************************************************************************)
(* C7.  After the one save of a freshly built document with P pages, I     *)
(* embedded images, L link entries (and D objects added directly) the      *)
(* store holds I + D + 4 + 2P + L + 2 objects: 4 fonts, P content streams, *)
(* P page nodes, L annotations, one page tree and one catalog.             *)
(***************************************************************************)
RECURSIVE LinksUpTo(_)
LinksUpTo(n) == IF n = 0 THEN 0 ELSE LinksUpTo(n - 1) + Len(pages[n].links)

NumLinks == LinksUpTo(Len(pages))

C7_ObjectCounts ==
  (SaveCompleted /\ save_calls = 1) =>
    LET P == Len(pages)
        I == Cardinality(DOMAIN images)
        L == NumLinks
        D == Count(objects, IsRaw)
    IN  /\ Len(objects) = I + D + 4 + 2 * P + L + 2
        /\ Count(objects, IsImage) = I
        /\ Count(objects, IsFont) = 4
        /\ Count(objects, IsContent) = P
        /\ Count(objects, IsPageNode) = P
        /\ Count(objects, IsAnnot) = L
        /\ Count(objects, IsPageTree) = 1
        /\ Count(objects, IsCatalog) = 1

\* one page, one embedded image and three link entries, saved once
C7_Witness ==
  /\ SaveCompleted
  /\ save_calls = 1
  /\ Len(pages) = 1
  /\ Cardinality(DOMAIN images) = 1
  /\ NumLinks = 3

(***************************************************************************)
(* C8.  A bounds warning is not fatal.  An add_text or add_image call      *)
(* whose rectangle is outside the padding box prints the warning, raises   *)
(* nothing and appends what the same call appends on a page where it is in *)
(* bounds; and save raises only for an unresolved image name, so it runs   *)
(* to the end after such a call.                                           *)
(***************************************************************************)
\* the page with a padding box that holds every rectangle of the inputs
RoomyPage(page) == [page EXCEPT !.padding_h = -100000, !.padding_v = -100000]

TextCallOutOfBounds(page, a) ==
  \E i \in 1..Len(TextLines(a)) :
    TextOutOfBounds(page, TextLines(a)[i], i - 1, a)

ColorsValid(a) ==
  /\ resolve_color(a.color).err = "none"
  /\ a.background # <<>> => resolve_color(a.background[1]).err = "none"

C8_BoundsWarningNotFatal ==
  [][/\ \A p \in 1..Len(pages), a \in TextCalls :
          (lastCall'.op = "add_text" /\ ColorsValid(a)
             /\ TextCallOutOfBounds(pages[p], a) /\ AddText(p, a)) =>
            LET inb == add_text(RoomyPage(pages[p]), a)
            IN  /\ inb.warnings = 0
                /\ lastCall'.err = "none"
                /\ lastCall'.warnings > 0
                /\ pages'[p].text_elements = inb.page.text_elements
                /\ pages'[p].links = inb.page.links
     /\ \A p \in 1..Len(pages), name \in DOMAIN images \cup {UnknownImage},
           shape \in ImageShapes :
          (lastCall'.op = "add_image" /\ shape.scale > 0
             /\ ImageOutOfBounds(pages[p], ImageCall(name, shape))
             /\ AddImage(p, ImageCall(name, shape))) =>
            LET inb == add_image(RoomyPage(pages[p]), ImageCall(name, shape))
            IN  /\ inb.warnings = 0
                /\ lastCall'.err = "none"
                /\ lastCall'.warnings > 0
                /\ pages'[p].image_elements = inb.page.image_elements
     /\ (pc = "idle" /\ save_calls' = save_calls + 1 /\ ~ Unresolved) =>
          (lastCall'.err = "none" /\ pc' = "fix")
     /\ pc = "fix" => pc' = "write"
     /\ pc = "write" => (pc' = "idle" /\ file_exists')]_vars

\* the text of the default call placed at x = 10 on a page with padding 50,
\* and the document saved
C8_Witness ==
  /\ SaveCompleted
  /\ warned
  /\ \E p \in 1..Len(pages) :
       /\ pages[p].padding_h = 50
       /\ pages[p].text_elements
            = << <<"0.000 0.000 0.000 rg\nBT /Helvetica 24 Tf 10.00 700.00 Td (",
                   "Hello", ") Tj ET">> >>

(***************************************************************************)
(* C9.  A document is consumed once by save: a second save, called right   *)
(* after a completed one, adds no object to the store (and so writes the   *)
(* same file).                                                             *)
(***************************************************************************)
C9_SecondSaveLeavesStore ==
  [][(SaveCompleted /\ file_exists /\ save_calls' = save_calls + 1) =>
       objects' = objects]_vars

(***************************************************************************)
(* C10.  add_text resolves a 3- or 6-digit hex colour with or without the  *)
(* leading "#": the digits alone resolve, to what "#" + digits resolve to, *)
(* and a 3-digit form resolves to what its doubled 6-digit form does.      *)
(***************************************************************************)
C10_HexWithOrWithoutMarker ==
  /\ color_probe.bare # NoProbe => color_probe.bare.err = "none"
  /\ color_probe.marked # NoProbe => color_probe.marked.err = "none"
  /\ (color_probe.bare # NoProbe /\ color_probe.marked # NoProbe) =>
       color_probe.bare = color_probe.marked
  /\ (color_probe.marked # NoProbe /\ color_probe.doubled # NoProbe) =>
       color_probe.marked = color_probe.doubled


(***************************************************************************)
(* C11.  Every line wrap_text returns has at most                          *)
(* int(max_width / (0.5 * font_size)) characters, except a line that is    *)
(* one single word of the text which alone exceeds that budget.            *)
(***************************************************************************)
WrapBudget == (2 * wrap_probe.max_width) \div wrap_probe.font_size

\* the line is one whitespace-delimited word of the text, unsplit
IsWordOf(line, text) ==
  \E k \in 1..Len(split(text)) : split(text)[k] = line

C11_LinesWithinBudget ==
  wrap_probe.done =>
    \A i \in 1..Len(wrap_probe.lines) :
      \/ ByteLen(wrap_probe.lines[i]) <= WrapBudget
      \/ IsWordOf(wrap_probe.lines[i], wrap_probe.text)

\* a text wrapped into a line of several words and a line that is one word
\* longer than the budget
C11_Witness ==
  /\ wrap_probe.done
  /\ \E i, j \in 1..Len(wrap_probe.lines) :
       /\ ByteLen(wrap_probe.lines[i]) > WrapBudget
       /\ Len(split(wrap_probe.lines[j])) > 1

(***************************************************************************)
(* C19.  wrap_text loses and invents nothing: every returned line is       *)
(* non-empty and the words of the returned lines, in order, are the        *)
(* whitespace-delimited words of the text, in order.                       *)
(***************************************************************************)
WordsOfLines(lines) == Flatten([i \in 1..Len(lines) |-> split(lines[i])])

C19_WrapKeepsWords ==
  wrap_probe.done =>
    /\ \A i \in 1..Len(wrap_probe.lines) : wrap_probe.lines[i] # <<>>
    /\ WordsOfLines(wrap_probe.lines) = split(wrap_probe.text)


\* ------------------------------------------------------------------
\* add_text on its own: one styling call, with valid and invalid colours,
\* on a page that already holds a fragment and a link

StyleValidColors ==
  { ColStr(<<"b", "l", "a", "c", "k">>), ColStr(<<"#", "F", "0", "0">>) }
\* an unknown name, a hex string of the wrong length, a hex string with a
\* digit that is not hexadecimal, a tuple that has not three components
StyleInvalidColors ==
  { ColStr(<<"n", "o">>), ColStr(<<"#", "1", "2">>),
    ColStr(<<"#", "G", "0", "0">>), ColTuple(<<1, 2>>) }
StyleColors == StyleValidColors \cup StyleInvalidColors
StyleBackgrounds == { <<>> } \cup { <<c>> : c \in StyleColors }
StyleTexts == { <<"Hello">>, <<" ", " ">>, <<>>, <<"aa", " ", "c">> }
StyleWidths == {0, 20}
StyleCalls ==
  { [DefaultText EXCEPT !.text = t, !.max_width = w, !.color = c,
                        !.background = b, !.link = <<"http://x/">>] :
      t \in StyleTexts, w \in StyleWidths, c \in StyleColors,
      b \in StyleBackgrounds }
StylePage ==
  add_text(ProbePage, [DefaultText EXCEPT !.link = <<"http://x/">>]).page
Styled(page) == [text_elements |-> page.text_elements, links |-> page.links]

InitStyle ==
  /\ FreshDocument
  /\ color_probe = [h |-> <<>>, bare |-> NoProbe, marked |-> NoProbe,
                    doubled |-> NoProbe]
  /\ wrap_probe = NoWrap
  /\ \E a \in StyleCalls :
       style_probe = [NoStyle EXCEPT !.a = a, !.before = Styled(StylePage)]

StyleText ==
  /\ ~ style_probe.done
  /\ \E r \in {add_text(StylePage, style_probe.a)} :
       style_probe' = [style_probe EXCEPT !.done = TRUE, !.err = r.err,
                                          !.after = Styled(r.page)]
  /\ UNCHANGED <<doc, file, file_exists, pc, show_page_numbers, save_locals,
                 calls, save_calls, lastCall, warned, color_probe, wrap_probe>>

NextStyle == StyleText
SpecStyle == InitStyle /\ [][NextStyle]_vars

\* C12: add_text called with an invalid text colour or an invalid background
\* colour raises in that call, for every text and max_width, and leaves the
\* page's text fragments and links as they were.
C12_InvalidColorFailsFast ==
  ( /\ style_probe.done
    /\ \/ style_probe.a.color \in StyleInvalidColors
       \/ /\ style_probe.a.background # <<>>
          /\ style_probe.a.background[1] \in StyleInvalidColors )
  => /\ style_probe.err # "none"
     /\ style_probe.after = style_probe.before


\* the names of a page's image-usage list that occur in it more than once
RepeatedUsages(page) ==
  { page.image_usages[i][1] : i \in
      { i \in 1..Len(page.image_usages) :
          \E j \in 1..Len(page.image_usages) :
            j # i /\ page.image_usages[j][1] = page.image_usages[i][1] } }

\* C13: after any sequence of add_image calls, each image name appears at
\* most once in each page's image-usage list (the list from which save writes
\* the page's /XObject map, one entry per element).
C13_UsageNamedOnce ==
  \A p \in 1..Len(pages) : RepeatedUsages(pages[p]) = {}


\* ------------------------------------------------------------------
\* documents whose text is set in the standard fonts, Helvetica and others

FontNames == { <<"Helvetica">>, <<"Times", "-", "Roman">>, <<"Courier">> }
FontCalls ==
  { [DefaultText EXCEPT !.font = f, !.bold = b, !.italic = i] :
      f \in FontNames, b \in BOOLEAN, i \in BOOLEAN }
FontPageCalls ==
  { [page_size |-> <<"A", "4">>, orientation |-> Portrait, width |-> 0,
     height |-> 0, padding_horizontal |-> 50, padding_vertical |-> 50] }

InitFont ==
  /\ FreshDocument
  /\ color_probe = [h |-> <<>>, bare |-> NoProbe, marked |-> NoProbe,
                    doubled |-> NoProbe]
  /\ wrap_probe = NoWrap
  /\ style_probe = NoStyle

NextFont ==
  \/ \E a \in FontPageCalls : AddPage(a)
  \/ \E p \in 1..Len(pages), a \in FontCalls : AddText(p, a)
  \/ \E show \in BOOLEAN : SaveBuild(show)
  \/ SaveFix
  \/ SaveWrite

SpecFont == InitFont /\ [][NextFont]_vars

\* the fragment a call of FontCalls appends to a page
FontFragment(a) == add_text(ProbePage, a).page.text_elements[1]

\* the font keys the text fragments of a page select
UsedFontKeys(page) ==
  { font_key(a.font, a.bold, a.italic) :
      a \in { a \in FontCalls :
                \E i \in 1..Len(page.text_elements) :
                  page.text_elements[i] = FontFragment(a) } }

\* key is a key of the /Font map that save writes into every page node, and
\* the store holds the font object of that key
FontResolved(key, store) ==
  \E k \in 1..Len(font_map) :
    /\ font_map[k][1] = key
    /\ \E n \in 1..Len(store) :
         store[n].data = font_object(font_map[k][1], font_map[k][2])

\* C14: when save has written the file, every font key that a page's content
\* stream selects is a key of the page's /Font map and has a font object in
\* the store (otherwise save would have failed instead of writing).
C14_FontKeysResolved ==
  (SaveCompleted /\ file_exists) =>
    \A p \in 1..Len(pages) :
      \A key \in UsedFontKeys(pages[p]) : FontResolved(key, objects)


\* the stored objects that are page nodes whose /Parent is the object ref
ChildrenOf(store, ref) ==
  { n \in 1..Len(store) :
      IsPageNode(store[n]) /\ store[n].data[2] = Str(ref) }

HasPlaceholder(o) == \E i \in 1..Len(o.data) : o.data[i] = "{pages}"

\* C15: after the placeholder pass and before the write pass, no stored
\* object contains the placeholder; every page node of this save has the
\* page tree of this save as its /Parent; and the page tree lists exactly
\* those page nodes, in page order, with /Count the number of pages.
C15_PlaceholdersResolved ==
  pc = "write" =>
    /\ \A n \in 1..Len(objects) : ~ HasPlaceholder(objects[n])
    /\ Len(page_obj_nums) = Len(pages)
    /\ \A p \in 1..Len(page_obj_nums) :
         /\ page_obj_nums[p] \in 1..Len(objects)
         /\ IsPageNode(objects[page_obj_nums[p]])
         /\ objects[page_obj_nums[p]].data[2] = Str(pages_obj)
         /\ \A q \in 1..Len(page_obj_nums) :
              p < q => page_obj_nums[p] < page_obj_nums[q]
    /\ ChildrenOf(objects, pages_obj)
         = { page_obj_nums[p] : p \in 1..Len(page_obj_nums) }
    /\ pages_obj \in 1..Len(objects)
    /\ IsPageTree(objects[pages_obj])
    /\ objects[pages_obj].data = pages_object(page_obj_nums)
    /\ objects[pages_obj].data[4] = Str(Len(pages))

C15_Witness ==
  /\ pc = "write"
  /\ Len(pages) >= 2
  /\ \E n \in 1..Len(objects) : IsRaw(objects[n])


\* the content objects of the store, in store order; the last Len(pages) of
\* them are those of the running save, one per page in page order
ContentObjects(store) == SelectSeq(store, IsContent)
PageContent(store, p) ==
  ContentObjects(store)[Len(ContentObjects(store)) - Len(pages) + p]

\* the elements of the stream of page p, each once: the text fragments, one
\* draw per placement, one caption draw per captioned placement, and the
\* page number when show_page_numbers is set
StreamOnce(page, p, sizes, show) ==
  LET els == page.image_elements
      draws == [i \in 1..Len(els) |-> ImageDraw(els[i], sizes[els[i].name])]
      captioned == SelectSeq(els, LAMBDA e : e.caption # <<>>)
      captions == [i \in 1..Len(captioned) |->
                     CaptionCmd(captioned[i], sizes[captioned[i].name][1])]
  IN  JoinWith("\n", page.text_elements \o draws \o captions)
      \o (IF show THEN page_number_cmd(page, p) ELSE <<>>)

\* C16: the content stream save stores for a page holds the page's text
\* fragments, one draw per image placement, one caption draw per captioned
\* placement and (when asked for) one page number, each once: it is as long
\* as those elements joined by newlines.
C16_StreamElementsOnce ==
  pc = "fix" =>
    \A p \in 1..Len(pages) :
      ByteLen(Payload(PageContent(objects, p).data))
        = ByteLen(StreamOnce(pages[p], p, image_sizes(images),
                             show_page_numbers))


\* C18: the placeholder pass changes only the /Parent reference of page
\* nodes: every font object, image stream, content stream and annotation
\* object is the same after the pass as before it, and a page node differs
\* at most in its /Parent token.
C18_PassChangesOnlyParent ==
  [][(pc = "fix" /\ pc' = "write") =>
       \A n \in 1..Len(objects) :
         /\ ( \/ IsFont(objects[n]) \/ IsImage(objects[n])
              \/ IsContent(objects[n]) \/ IsAnnot(objects[n]) )
            => objects'[n] = objects[n]
         /\ IsPageNode(objects[n])
            => /\ Len(objects'[n].data) = Len(objects[n].data)
               /\ \A i \in 1..Len(objects[n].data) :
                    i # 2 => objects'[n].data[i] = objects[n].data[i]]_vars


\* ------------------------------------------------------------------
\* save on a target whose writes can fail: open(filename, "wb") has
\* truncated the target, k writes have gone through and the next one raises
\* OSError, which save does not handle

SaveWriteFails ==
  /\ pc = "write"
  /\ \E f \in {written_file(objects, catalog_obj)} :
       \E k \in 0..(Len(f) - 1) : file' = SubSeq(f, 1, k)
  /\ file_exists' = TRUE
  /\ pc' = "idle"
  /\ lastCall' = Call("save", "OSError", 0)
  /\ UNCHANGED <<pages, objects, images, save_locals, calls, save_calls,
                 warned, probes>>

NextIO ==
  \/ \E a \in FontPageCalls : AddPage(a)
  \/ \E p \in 1..Len(pages), a \in {DefaultText} : AddText(p, a)
  \/ \E show \in BOOLEAN : SaveAgain(show)
  \/ SaveFix
  \/ SaveWrite
  \/ SaveWriteFails

SpecIO == Init /\ [][NextIO]_vars

\* C17: when the write pass of save ends, by completing or by an I/O
\* failure, the target holds the complete new file or is as it was before
\* save was called.
C17_NoPartialFile ==
  [][(pc = "write" /\ pc' = "idle") =>
       \/ /\ file' = written_file(objects, catalog_obj)
          /\ file_exists'
       \/ /\ file' = file
          /\ file_exists' = file_exists]_vars

====
